---- MODULE Spec2Model ----
(***************************************************************************)
(* Task queue of blackroad-salesforce-agent (src/src/queue/task_queue.py): *)
(* the SQLite table `tasks`, the statements SQLiteBackend runs on it and   *)
(* the TaskQueue facade, with every SQL statement one atomic step.         *)
(***************************************************************************)
EXTENDS Integers, Sequences, FiniteSets, TLC

\* ---------------------------------------------------------------- bounds
\* rows the concurrent callers insert, rows the sequential caller inserts,
\* rows of the retry and of the priority scenario, the last clock value,
\* fail calls counted per task
MaxTasks == 1
MaxSeqTasks == 1
MaxRetryTasks == 2
MaxStatTasks == 2
MaxClaimedTasks == 2
MaxRequeueTasks == 2
MaxRaceTasks == 2
MaxDurableTasks == 2
MaxTwinTasks == 2
MaxBackoffTasks == 1
MaxIdle == 51
MaxDaemonTasks == 2
MaxDaemonIdle == 1
MaxWorkerTasks == 1
MaxCountedTasks == 1
MaxAgentTasks == 2
MaxEmpty == 1
MaxPolls == 2
\* the payloads of one submit_batch call, and the rows its callers insert
MaxBatch == 2
MaxBatchTasks == 3
\* the tasks of the claim/complete/fail scenario and how many of them fail
ScenarioTasks == 10
ScenarioFailed == 3
MaxQueued == 3
MaxClock == 1
MaxFails == 5

\* ------------------------------------------------------- program values
\* TaskPriority
LOW == 0
NORMAL == 1
HIGH == 2
URGENT == 3
TaskPriority == {LOW, NORMAL, HIGH, URGENT}

\* TaskStatus values as stored in the status column
PENDING == "pending"
PROCESSING == "processing"
COMPLETED == "completed"
FAILED == "failed"
RETRYING == "retrying"
TaskStatus == {PENDING, PROCESSING, COMPLETED, FAILED, RETRYING}

\* Task.max_retries default
DefaultMaxRetries == 3

\* SQL NULL of a TEXT column, and of a REAL column
NULL == "NULL"
NoTime == -1

\* callers (agent ids) and the opaque inputs; ids (uuid4 strings) are 1, 2, ..
Agents == {"a1", "a2"}
Operations == {"create"}
SObjects == {"Account"}
DataVals == {"d1"}
Results == {"r1", "r2"}
Errors == {"e1"}

VARIABLES
  store,    \* the tasks table: id -> row, for the ids inserted so far
  clock,    \* time.time()
  pc,       \* per caller: the statement its call in progress runs next
  loc,      \* per caller: the locals of its call in progress
  last,     \* the last call of the sequential caller: name, id, value, exception
  holders,  \* per id: the callers get_next gave it to since it was last requeued
  fails,    \* per id: the fail calls made on it while it was claimed or dead
  twin,     \* the table of a second run that is given other error strings
  daemon,   \* the SalesforceDaemon object and the locals of its _run_loop
  returns,  \* per id: how often get_next of a worker loop returned the task
  agent,    \* the SalesforceAgent object, its loop, its executor, its record
  bulk      \* one BulkClient._execute_job call: position, requests sent, outcome

vars == <<store, clock, pc, loc, last, holders, fails, twin, daemon, returns, agent, bulk>>

\* ------------------------------------------------------------ the Task
\* mutant: the Task built without the priority it was given
NewTaskDefaultPriority(id, operation, sobject, data, priority, max_retries, now) ==
  [id |-> id, operation |-> operation, sobject |-> sobject, data |-> data,
   status |-> PENDING, priority |-> NORMAL, created_at |-> now,
   started_at |-> NoTime, completed_at |-> NoTime, result |-> NULL,
   error |-> NULL, retry_count |-> 0, max_retries |-> max_retries,
   agent_id |-> NULL]

\* Task(...) as TaskQueue.submit builds it: the dataclass defaults
NewTask(id, operation, sobject, data, priority, max_retries, now) ==
  [id |-> id, operation |-> operation, sobject |-> sobject, data |-> data,
   status |-> PENDING, priority |-> priority, created_at |-> now,
   started_at |-> NoTime, completed_at |-> NoTime, result |-> NULL,
   error |-> NULL, retry_count |-> 0, max_retries |-> max_retries,
   agent_id |-> NULL]

\* --------------------------------------------------------------- Store
Rows(s) == {s[i] : i \in DOMAIN s}

\* INSERT INTO tasks (id, operation, sobject, data, status, priority,
\* created_at, max_retries): the other columns take the schema defaults,
\* rowid is SQLite's (one more than the largest, no row is ever deleted)
InsertRow(s, task) ==
  [i \in DOMAIN s \cup {task.id} |->
     IF i = task.id
     THEN [id |-> task.id, operation |-> task.operation,
           sobject |-> task.sobject, data |-> task.data,
           status |-> task.status, priority |-> task.priority,
           created_at |-> task.created_at, started_at |-> NoTime,
           completed_at |-> NoTime, result |-> NULL, error |-> NULL,
           retry_count |-> 0, max_retries |-> task.max_retries,
           agent_id |-> NULL, rowid |-> Cardinality(DOMAIN s) + 1]
     ELSE s[i]]

\* mutant: the id column without its PRIMARY KEY constraint
NoPrimaryKey(s, id) == FALSE

\* id TEXT PRIMARY KEY
PrimaryKeyViolated(s, id) == id \in DOMAIN s

\* mutant: ORDER BY priority ASC
SortsBeforeAscending(r, q) ==
  \/ r.priority < q.priority
  \/ r.priority = q.priority /\ r.created_at < q.created_at

\* ORDER BY priority DESC, created_at ASC: r sorts strictly before q
SortsBefore(r, q) ==
  \/ r.priority > q.priority
  \/ r.priority = q.priority /\ r.created_at < q.created_at

\* mutant: the SELECT that also takes failed tasks
PopCandidatesWithFailed(s) ==
  {r \in Rows(s) : /\ r.status \in {PENDING, FAILED}
                   /\ \A q \in Rows(s) :
                        q.status \in {PENDING, FAILED} => ~SortsBefore(q, r)}

\* SELECT * FROM tasks WHERE status = 'pending'
\* ORDER BY priority DESC, created_at ASC LIMIT 1: the rows fetchone() may
\* give; the order of rows that compare equal is not defined by SQLite
PopCandidates(s) ==
  {r \in Rows(s) : /\ r.status = PENDING
                   /\ \A q \in Rows(s) : q.status = PENDING => ~SortsBefore(q, r)}

\* mutant: the claim that does not store the lease owner
PopUpdateNoLease(s, id, now, agent_id) ==
  [i \in DOMAIN s |->
     IF i = id
     THEN [s[i] EXCEPT !.status = PROCESSING, !.started_at = now]
     ELSE s[i]]

\* UPDATE tasks SET status = 'processing', started_at = ?, agent_id = ?
\* WHERE id = ?
PopUpdate(s, id, now, agent_id) ==
  [i \in DOMAIN s |->
     IF i = id
     THEN [s[i] EXCEPT !.status = PROCESSING, !.started_at = now,
                       !.agent_id = agent_id]
     ELSE s[i]]

\* the Task pop returns: built from the row fetched by the SELECT
PoppedTask(row, now, agent_id) ==
  [id |-> row.id, operation |-> row.operation, sobject |-> row.sobject,
   data |-> row.data, status |-> PROCESSING, priority |-> row.priority,
   created_at |-> row.created_at, started_at |-> now,
   completed_at |-> NoTime, result |-> NULL, error |-> NULL,
   retry_count |-> row.retry_count, max_retries |-> row.max_retries,
   agent_id |-> agent_id]

\* mutant: the UPDATE of complete that also writes the result over data
CompleteUpdateOverData(s, id, now, result) ==
  [i \in DOMAIN s |->
     IF i = id
     THEN [s[i] EXCEPT !.status = COMPLETED, !.completed_at = now,
                       !.result = result, !.data = result]
     ELSE s[i]]

\* mutant: the UPDATE of complete without its WHERE clause
CompleteUpdateEveryRow(s, id, now, result) ==
  [i \in DOMAIN s |->
     [s[i] EXCEPT !.status = COMPLETED, !.completed_at = now,
                  !.result = result]]

\* UPDATE tasks SET status = 'completed', completed_at = ?, result = ?
\* WHERE id = ?
CompleteUpdate(s, id, now, result) ==
  [i \in DOMAIN s |->
     IF i = id
     THEN [s[i] EXCEPT !.status = COMPLETED, !.completed_at = now,
                       !.result = result]
     ELSE s[i]]

\* mutant: the UPDATE of fail without its WHERE clause
FailUpdateEveryRow(s, id, now, error) ==
  [i \in DOMAIN s |->
     [s[i] EXCEPT !.status = FAILED, !.completed_at = now, !.error = error]]

\* mutant: the terminal fail that does not store the error
FailUpdateDropsError(s, id, now, error) ==
  [i \in DOMAIN s |->
     IF i = id
     THEN [s[i] EXCEPT !.status = FAILED, !.completed_at = now]
     ELSE s[i]]

\* mutant: the terminal fail that stamps the error but not the status
FailUpdateKeepsStatus(s, id, now, error) ==
  [i \in DOMAIN s |->
     IF i = id
     THEN [s[i] EXCEPT !.completed_at = now, !.error = error]
     ELSE s[i]]

\* UPDATE tasks SET status = 'failed', completed_at = ?, error = ?
\* WHERE id = ?
FailUpdate(s, id, now, error) ==
  [i \in DOMAIN s |->
     IF i = id
     THEN [s[i] EXCEPT !.status = FAILED, !.completed_at = now,
                       !.error = error]
     ELSE s[i]]

\* mutant: retry_count > max_retries, one retry too many
RetryRefusedOffByOne(s, id) ==
  \/ id \notin DOMAIN s
  \/ s[id].retry_count > s[id].max_retries

\* retry: if not row or row['retry_count'] >= row['max_retries'], on the
\* row fetched by SELECT retry_count, max_retries FROM tasks WHERE id = ?
RetryRefused(s, id) ==
  \/ id \notin DOMAIN s
  \/ s[id].retry_count >= s[id].max_retries

\* mutant: the requeue that does not clear started_at
RetryUpdateKeepsStartedAt(s, id) ==
  [i \in DOMAIN s |->
     IF i = id
     THEN [s[i] EXCEPT !.status = PENDING,
                       !.retry_count = s[i].retry_count + 1,
                       !.agent_id = NULL]
     ELSE s[i]]

\* mutant: the requeue that does not clear agent_id
RetryUpdateKeepsAgent(s, id) ==
  [i \in DOMAIN s |->
     IF i = id
     THEN [s[i] EXCEPT !.status = PENDING,
                       !.retry_count = s[i].retry_count + 1,
                       !.started_at = NoTime]
     ELSE s[i]]

\* mutant: the requeue that does not count the retry
RetryUpdateKeepsCount(s, id) ==
  [i \in DOMAIN s |->
     IF i = id
     THEN [s[i] EXCEPT !.status = PENDING,
                       !.started_at = NoTime, !.agent_id = NULL]
     ELSE s[i]]

\* mutant: the requeue that stores the status 'retrying'
RetryUpdateRetrying(s, id) ==
  [i \in DOMAIN s |->
     IF i = id
     THEN [s[i] EXCEPT !.status = RETRYING,
                       !.retry_count = s[i].retry_count + 1,
                       !.started_at = NoTime, !.agent_id = NULL]
     ELSE s[i]]

\* UPDATE tasks SET status = 'pending', retry_count = retry_count + 1,
\* started_at = NULL, agent_id = NULL WHERE id = ?
RetryUpdate(s, id) ==
  [i \in DOMAIN s |->
     IF i = id
     THEN [s[i] EXCEPT !.status = PENDING,
                       !.retry_count = s[i].retry_count + 1,
                       !.started_at = NoTime, !.agent_id = NULL]
     ELSE s[i]]

\* the rows of one status
WithStatus(s, status) == {i \in DOMAIN s : s[i].status = status}

\* SELECT status, COUNT(*) as count FROM tasks GROUP BY status: one row
\* for each status some task has
StatusGroups(s) == {r.status : r \in Rows(s)}

\* for row in cursor: stats["total"] += row[1]
RECURSIVE SumCounts(_, _)
SumCounts(s, groups) ==
  IF groups = {} THEN 0
  ELSE LET g == CHOOSE x \in groups : TRUE
       IN Cardinality(WithStatus(s, g)) + SumCounts(s, groups \ {g})

\* mutant: the total that counts the tasks still in the queue only
GetStatsOpenTotal(s) ==
  [k \in {PENDING, PROCESSING, COMPLETED, FAILED, "total"}
          \cup StatusGroups(s) |->
     IF k = "total" THEN SumCounts(s, StatusGroups(s) \ {COMPLETED, FAILED})
     ELSE Cardinality(WithStatus(s, k))]

\* SQLiteBackend.get_stats: the four counts and the total start at 0, every
\* group sets the entry of its status and adds to the total
GetStats(s) ==
  [k \in {PENDING, PROCESSING, COMPLETED, FAILED, "total"}
          \cup StatusGroups(s) |->
     IF k = "total" THEN SumCounts(s, StatusGroups(s))
     ELSE Cardinality(WithStatus(s, k))]

\* ------------------------------------------------------ caller's state
None == [kind |-> "None"]
Idle == [op |-> "idle"]
ReturnedId(id) == [kind |-> "id", id |-> id]
ReturnedTask(task) == [kind |-> "Task", task |-> task]
ReturnedStats(stats) == [kind |-> "stats", stats |-> stats]
ReturnedBool(b) == [kind |-> "bool", bool |-> b]
\* a finished call: its name, the id it was about, its value, the
\* exception it raised (NULL: it returned)
Call(op, id, value, exception) ==
  [op |-> op, id |-> id, value |-> value, raised |-> exception]

\* the next unused id: uuid4 strings are fresh and only ever compared for
\* equality, so the ids are named in the order of their first use
FreshId == Cardinality(DOMAIN store) + 1

Init ==
  /\ store = <<>>
  /\ clock = 0
  /\ pc = [a \in Agents |-> "idle"]
  /\ loc = [a \in Agents |-> Idle]
  /\ last = Call("init", 0, None, NULL)
  /\ holders = <<>>
  /\ fails = <<>>
  /\ twin = <<>>
  /\ daemon = [running |-> FALSE, pos |-> "init", idle_count |-> 0,
               sleep_time |-> 0, task |-> None, tasks_processed |-> 0,
               tasks_failed |-> 0, calls |-> <<>>, raised |-> FALSE,
               late_claims |-> 0]
  /\ returns = <<>>
  /\ agent = [running |-> FALSE, shutdown |-> FALSE, in_handler |-> FALSE,
              pos |-> "init", consecutive_empty |-> 0, task |-> None,
              executor |-> {}, claimed |-> 0, handed |-> 0, reported |-> 0]
  /\ bulk = [pos |-> "init", operation |-> NULL, requests |-> <<>>,
             polls |-> 0, state |-> NULL, failed_step |-> NULL,
             abort_raised |-> FALSE, raised |-> NULL, returned |-> NULL]

\* the clock advances (time.time() is read, never set, by the program)
Tick ==
  /\ clock < MaxClock
  /\ clock' = clock + 1
  /\ UNCHANGED <<store, pc, loc, last, holders, fails, twin, daemon, returns, agent, bulk>>

\* the records kept beside the table: a new id, an id given out by
\* get_next, an id requeued by retry
Inserted(h, id, v) ==
  [i \in DOMAIN h \cup {id} |-> IF i \in DOMAIN h THEN h[i] ELSE v]
Given(h, id, a) ==
  [i \in DOMAIN h |-> IF i = id THEN h[i] \cup {a} ELSE h[i]]
Requeued(h, id) ==
  [i \in DOMAIN h |-> IF i = id THEN {} ELSE h[i]]

\* ------------------------------------------- calls, statement by statement
\* SQLiteBackend.push(task): one INSERT; sqlite3.IntegrityError on a
\* duplicate id, raised before the commit, so nothing is stored
Push(a, task) ==
  /\ pc[a] = "idle"
  /\ IF PrimaryKeyViolated(store, task.id)
     THEN UNCHANGED <<store, holders, fails, twin, daemon, returns, agent, bulk>>
     ELSE /\ store' = InsertRow(store, task)
          /\ holders' = Inserted(holders, task.id, {})
          /\ fails' = Inserted(fails, task.id, 0)
  /\ UNCHANGED <<clock, pc, loc, last, twin, daemon, returns, agent, bulk>>

\* a caller of the backend pushes a Task it built itself, under an id
\* already stored or under a new one
PushTask(a, N, P, M) ==
  \E id \in 1..N, op \in Operations, so \in SObjects,
     d \in DataVals, p \in P, m \in M :
    /\ id <= FreshId
    /\ Push(a, NewTask(id, op, so, d, p, m, clock))

\* TaskQueue.get_next / SQLiteBackend.pop, the SELECT; returns None when
\* it fetches no row
PopSelect(a) ==
  /\ pc[a] = "idle"
  /\ \E row \in PopCandidates(store) :
       /\ pc' = [pc EXCEPT ![a] = "pop_update"]
       /\ loc' = [loc EXCEPT ![a] = [op |-> "pop", row |-> row]]
  /\ UNCHANGED <<store, clock, last, holders, fails, twin, daemon, returns, agent, bulk>>

\* SQLiteBackend.pop, the UPDATE with time.time() and the commit
PopCommit(a) ==
  /\ pc[a] = "pop_update"
  /\ store' = PopUpdate(store, loc[a].row.id, clock, a)
  /\ pc' = [pc EXCEPT ![a] = "pop_return"]
  /\ UNCHANGED <<clock, loc, last, holders, fails, twin, daemon, returns, agent, bulk>>

\* SQLiteBackend.pop, the Task built from the fetched row with a second
\* time.time(), and the return
PopReturn(a) ==
  /\ pc[a] = "pop_return"
  /\ holders' = Given(holders, loc[a].row.id, a)
  /\ pc' = [pc EXCEPT ![a] = "idle"]
  /\ loc' = [loc EXCEPT ![a] = Idle]
  /\ UNCHANGED <<store, clock, last, fails, twin, daemon, returns, agent, bulk>>

\* TaskQueue.complete / SQLiteBackend.complete: one UPDATE
Complete(a, id, result) ==
  /\ pc[a] = "idle"
  /\ store' = CompleteUpdate(store, id, clock, result)
  /\ UNCHANGED <<clock, pc, loc, last, holders, fails, twin, daemon, returns, agent, bulk>>

CompleteAny(a, N, R) == \E id \in 1..N, r \in R : Complete(a, id, r)

\* TaskQueue.fail, first statement: the SELECT of SQLiteBackend.retry
RetrySelect(a, id, error) ==
  /\ pc[a] = "idle"
  /\ pc' = [pc EXCEPT ![a] = IF RetryRefused(store, id)
                            THEN "fail_update" ELSE "retry_update"]
  /\ loc' = [loc EXCEPT ![a] = [op |-> "fail", id |-> id, error |-> error]]
  /\ UNCHANGED <<store, clock, last, holders, fails, twin, daemon, returns, agent, bulk>>

FailAny(a, N, E) == \E id \in 1..N, e \in E : RetrySelect(a, id, e)

\* SQLiteBackend.retry, the UPDATE; retry returns True and fail returns
RetryCommit(a) ==
  /\ pc[a] = "retry_update"
  /\ store' = RetryUpdate(store, loc[a].id)
  /\ holders' = Requeued(holders, loc[a].id)
  /\ pc' = [pc EXCEPT ![a] = "idle"]
  /\ loc' = [loc EXCEPT ![a] = Idle]
  /\ UNCHANGED <<clock, last, fails, twin, daemon, returns, agent, bulk>>

\* retry returned False: SQLiteBackend.fail, one UPDATE
FailCommit(a) ==
  /\ pc[a] = "fail_update"
  /\ store' = FailUpdate(store, loc[a].id, clock, loc[a].error)
  /\ pc' = [pc EXCEPT ![a] = "idle"]
  /\ loc' = [loc EXCEPT ![a] = Idle]
  /\ UNCHANGED <<clock, last, holders, fails, twin, daemon, returns, agent, bulk>>

\* concurrent callers, every statement a step
Next ==
  \/ \E a \in Agents : PushTask(a, MaxTasks, {NORMAL}, {1})
  \/ \E a \in Agents : PopSelect(a)
  \/ \E a \in Agents : PopCommit(a)
  \/ \E a \in Agents : PopReturn(a)
  \/ \E a \in Agents : CompleteAny(a, MaxTasks, {"r1"})
  \/ \E a \in Agents : FailAny(a, MaxTasks, Errors)
  \/ \E a \in Agents : RetryCommit(a)
  \/ \E a \in Agents : FailCommit(a)

Spec == Init /\ [][Next]_vars

\* ------------------------------------------------ calls, one at a time
\* the clock readings a call may get after an earlier one of the same call
Later(now) == {t \in {now, now + 1} : t <= MaxClock}

\* SQLiteBackend.push(task) by the sequential caller
SeqPush(task) ==
  /\ IF PrimaryKeyViolated(store, task.id)
     THEN /\ last' = Call("push", task.id, None, "IntegrityError")
          /\ UNCHANGED <<store, holders, fails, twin, daemon, returns, agent, bulk>>
     ELSE /\ store' = InsertRow(store, task)
          /\ holders' = Inserted(holders, task.id, {})
          /\ fails' = Inserted(fails, task.id, 0)
          /\ last' = Call("push", task.id, None, NULL)
  /\ UNCHANGED <<clock, pc, loc, twin, daemon, returns, agent, bulk>>

SeqPushTask(N, P, M) ==
  \E id \in 1..N, op \in Operations, so \in SObjects,
     d \in DataVals, p \in P, m \in M :
    /\ id <= FreshId
    /\ SeqPush(NewTask(id, op, so, d, p, m, clock))

\* an optional argument of a call: passed, or left out
Arg(v) == {v}
Omitted == {}

\* priority: TaskPriority = TaskPriority.NORMAL
PriorityOrDefault(arg) == IF arg = Omitted THEN NORMAL ELSE CHOOSE p \in arg : TRUE

\* a finished submit: the call with the arguments it was given
SubmitCall(id, operation, sobject, data, priority) ==
  [op |-> "submit", id |-> id, value |-> ReturnedId(id), raised |-> NULL,
   args |-> [operation |-> operation, sobject |-> sobject, data |-> data,
             priority |-> priority]]

\* TaskQueue.submit: id = str(uuid.uuid4()), a fresh id; returns the id
SeqSubmit(N, P) ==
  \E op \in Operations, so \in SObjects, d \in DataVals, p \in P :
    /\ FreshId <= N
    /\ store' = InsertRow(store, NewTask(FreshId, op, so, d,
                                         PriorityOrDefault(p),
                                         DefaultMaxRetries, clock))
    /\ holders' = Inserted(holders, FreshId, {})
    /\ fails' = Inserted(fails, FreshId, 0)
    /\ last' = SubmitCall(FreshId, op, so, d, p)
    /\ UNCHANGED <<clock, pc, loc, twin, daemon, returns, agent, bulk>>

\* TaskQueue.get_next(agent_id): pop's SELECT, UPDATE and return
SeqGetNext(a) ==
  /\ IF PopCandidates(store) = {}
     THEN /\ last' = Call("get_next", 0, None, NULL)
          /\ UNCHANGED <<store, clock, holders, twin, daemon, returns, agent, bulk>>
     ELSE \E row \in PopCandidates(store), now2 \in Later(clock) :
            /\ store' = PopUpdate(store, row.id, clock, a)
            /\ clock' = now2
            /\ holders' = Given(holders, row.id, a)
            /\ last' = Call("get_next", row.id,
                            ReturnedTask(PoppedTask(row, now2, a)), NULL)
  /\ UNCHANGED <<pc, loc, fails, twin, daemon, returns, agent, bulk>>

\* a finished complete: the call with the result it was given
CompleteCall(id, result) ==
  [op |-> "complete", id |-> id, value |-> None, raised |-> NULL,
   args |-> [result |-> result]]

\* TaskQueue.complete(task_id, result)
SeqComplete(id, result) ==
  /\ store' = CompleteUpdate(store, id, clock, result)
  /\ last' = CompleteCall(id, result)
  /\ UNCHANGED <<clock, pc, loc, holders, fails, twin, daemon, returns, agent, bulk>>

\* a finished fail: the call with the error it was given
FailCall(id, error) ==
  [op |-> "fail", id |-> id, value |-> None, raised |-> NULL,
   args |-> [error |-> error]]

\* TaskQueue.fail(task_id, error): retry, and fail if retry returned False
SeqFailCall(id, error) ==
  /\ IF RetryRefused(store, id)
     THEN /\ store' = FailUpdate(store, id, clock, error)
          /\ UNCHANGED holders
     ELSE /\ store' = RetryUpdate(store, id)
          /\ holders' = Requeued(holders, id)
  /\ last' = FailCall(id, error)
  /\ UNCHANGED <<clock, pc, loc, twin, daemon, returns, agent, bulk>>

SeqFail(id, error) == SeqFailCall(id, error) /\ UNCHANGED fails

\* SQLiteBackend.retry(task_id), called on its own: False when the row is
\* missing or its budget is spent, else the requeue and True
SeqRetry(id) ==
  /\ IF RetryRefused(store, id)
     THEN /\ last' = Call("retry", id, ReturnedBool(FALSE), NULL)
          /\ UNCHANGED <<store, holders, twin, daemon, returns, agent, bulk>>
     ELSE /\ store' = RetryUpdate(store, id)
          /\ holders' = Requeued(holders, id)
          /\ last' = Call("retry", id, ReturnedBool(TRUE), NULL)
  /\ UNCHANGED <<clock, pc, loc, fails, twin, daemon, returns, agent, bulk>>

\* one caller at a time, any call on any id
NextSeq ==
  \/ Tick
  \/ SeqPushTask(MaxSeqTasks, {NORMAL}, {1})
  \/ \E a \in Agents : SeqGetNext(a)
  \/ \E id \in 1..MaxSeqTasks, r \in Results : SeqComplete(id, r)
  \/ \E id \in 1..MaxSeqTasks, e \in Errors : SeqFail(id, e)

SpecSeq == Init /\ [][NextSeq]_vars

\* a step of the sequential caller in which a call was made
CallStep == last' # last \/ store' # store

\* the task get_next returned in this step, as it was stored before
Claimed == store[last'.id]
GetNextReturnedTask ==
  /\ last'.op = "get_next"
  /\ last'.value.kind = "Task"
  /\ store' # store

\* ------------------------------------- tasks that are claimed and failed
\* fail on a task that is claimed, or that is already dead
RetryFail(id, error) ==
  /\ id \in DOMAIN store
  /\ store[id].status \in {PROCESSING, FAILED}
  /\ fails[id] < MaxFails
  /\ SeqFailCall(id, error)
  /\ fails' = [fails EXCEPT ![id] = @ + 1]

NextRetry ==
  \/ SeqSubmit(MaxRetryTasks, {Arg(NORMAL)})
  \/ \E a \in Agents : SeqGetNext(a)
  \/ \E id \in 1..MaxRetryTasks, e \in Errors : RetryFail(id, e)

SpecRetry == Init /\ [][NextRetry]_vars

\* --------------------------------------- producers and one claiming agent
NextPrio ==
  \/ Tick
  \/ SeqSubmit(MaxQueued, {Omitted} \cup {Arg(p) : p \in TaskPriority})
  \/ SeqGetNext("a1")

SpecPrio == Init /\ [][NextPrio]_vars

\* ------------------------------------- one producer, one agent, the stats
\* TaskQueue.stats()
SeqStats ==
  /\ last' = Call("stats", 0, ReturnedStats(GetStats(store)), NULL)
  /\ UNCHANGED <<store, clock, pc, loc, holders, fails, twin, daemon, returns, agent, bulk>>

\* the tasks submitted so far: the ids recorded when they were inserted
Submitted == Cardinality(DOMAIN holders)

\* timestamps play no part in the counts: the clock stands still
NextStats ==
  \/ SeqSubmit(MaxStatTasks, {Arg(NORMAL)})
  \/ SeqGetNext("a1") /\ clock' = clock
  \/ \E id \in 1..MaxStatTasks : SeqComplete(id, "r1")
  \/ \E id \in 1..MaxStatTasks : SeqFail(id, "e1")
  \/ SeqStats

SpecStats == Init /\ [][NextStats]_vars

\* ------------------------- ScenarioTasks tasks with max_retries = 1, agent a1
\* every task of the scenario is stored and has been claimed once
AllClaimed ==
  /\ Cardinality(DOMAIN store) = ScenarioTasks
  /\ \A r \in Rows(store) : r.status = PENDING => r.retry_count > 0

\* the first round is over: every task was completed or failed once
RoundOneDone ==
  /\ AllClaimed
  /\ \A r \in Rows(store) : r.status = PROCESSING => r.retry_count > 0

\* the first round takes the claimed tasks in the order of their ids
NextInRoundOne(id) ==
  \A i \in DOMAIN store :
    (store[i].status = PROCESSING /\ store[i].retry_count = 0) => id <= i

\* push(Task(..., max_retries=1)) under a fresh id, before the first claim
ScenarioPush ==
  /\ FreshId <= ScenarioTasks
  /\ \E op \in Operations, so \in SObjects, d \in DataVals :
       SeqPush(NewTask(FreshId, op, so, d, NORMAL, 1, clock))

\* get_next("a1"): the first round of claims, and the round after the
\* first failures; its two clock readings are the same
ScenarioGetNext ==
  /\ Cardinality(DOMAIN store) = ScenarioTasks
  /\ \/ \A r \in Rows(store) : r.retry_count = 0 /\ r.status # COMPLETED
     \/ RoundOneDone
  /\ PopCandidates(store) # {}
  /\ SeqGetNext("a1")
  /\ clock' = clock

\* complete on a claimed task, ScenarioTasks - ScenarioFailed times
ScenarioComplete(id) ==
  /\ AllClaimed
  /\ id \in DOMAIN store
  /\ store[id].status = PROCESSING
  /\ store[id].retry_count = 0
  /\ NextInRoundOne(id)
  /\ Cardinality(WithStatus(store, COMPLETED)) < ScenarioTasks - ScenarioFailed
  /\ SeqComplete(id, "r1")

\* fail on a claimed task: ScenarioFailed tasks, each once in each round
ScenarioFail(id) ==
  /\ AllClaimed
  /\ id \in DOMAIN store
  /\ store[id].status = PROCESSING
  /\ store[id].retry_count = 0 =>
       /\ NextInRoundOne(id)
       /\ Cardinality({i \in DOMAIN fails : fails[i] > 0}) < ScenarioFailed
  /\ SeqFailCall(id, "e1")
  /\ fails' = [fails EXCEPT ![id] = @ + 1]

NextScenario ==
  \/ ScenarioPush
  \/ ScenarioGetNext
  \/ \E id \in 1..ScenarioTasks : ScenarioComplete(id)
  \/ \E id \in 1..ScenarioTasks : ScenarioFail(id)
  \/ SeqStats

SpecScenario == Init /\ [][NextScenario]_vars

\* ------------------------------------------------------- submit_batch
\* the payloads of a batch, told apart
BatchData == {"d1", "d2"}
RECURSIVE Lists(_, _)
Lists(S, n) ==
  IF n = 0 THEN {<<>>}
  ELSE Lists(S, n - 1) \cup {Append(l, x) : l \in Lists(S, n - 1), x \in S}

ReturnedIds(ids) == [kind |-> "ids", ids |-> ids]

\* a finished or interrupted submit_batch: its payloads, the ids stored
\* before it began and the ids it had appended to task_ids
BatchCall(l, value, exception) ==
  [op |-> "submit_batch", id |-> 0, value |-> value, raised |-> exception,
   data_list |-> l.data_list, before |-> l.before, task_ids |-> l.task_ids]

\* TaskQueue.submit_batch is called: task_ids = []
BatchStart(a) ==
  /\ pc[a] = "idle"
  /\ \E op \in Operations, so \in SObjects, p \in {Omitted},
        data_list \in Lists(BatchData, MaxBatch) :
       /\ Cardinality(DOMAIN store) + Len(data_list) <= MaxBatchTasks
       /\ loc' = [loc EXCEPT ![a] =
                    [op |-> "submit_batch", operation |-> op, sobject |-> so,
                     priority |-> p, data_list |-> data_list,
                     task_ids |-> <<>>, before |-> DOMAIN store]]
  /\ pc' = [pc EXCEPT ![a] = "batch_loop"]
  /\ UNCHANGED <<store, clock, last, holders, fails, twin, daemon, returns, agent, bulk>>

\* mutant: the loop that puts each new id at the front of task_ids
BatchSubmitPrepends(a) ==
  /\ pc[a] = "batch_loop"
  /\ Len(loc[a].task_ids) < Len(loc[a].data_list)
  /\ LET l == loc[a]
         data == l.data_list[Len(l.task_ids) + 1]
     IN /\ store' = InsertRow(store,
                       NewTask(FreshId, l.operation, l.sobject, data,
                               PriorityOrDefault(l.priority),
                               DefaultMaxRetries, clock))
        /\ holders' = Inserted(holders, FreshId, {})
        /\ fails' = Inserted(fails, FreshId, 0)
        /\ loc' = [loc EXCEPT ![a].task_ids = <<FreshId>> \o @]
  /\ UNCHANGED <<clock, pc, last, twin, daemon, returns, agent, bulk>>

\* one turn of the loop: task_id = self.submit(...); task_ids.append(task_id)
BatchSubmit(a) ==
  /\ pc[a] = "batch_loop"
  /\ Len(loc[a].task_ids) < Len(loc[a].data_list)
  /\ LET l == loc[a]
         data == l.data_list[Len(l.task_ids) + 1]
     IN /\ store' = InsertRow(store,
                       NewTask(FreshId, l.operation, l.sobject, data,
                               PriorityOrDefault(l.priority),
                               DefaultMaxRetries, clock))
        /\ holders' = Inserted(holders, FreshId, {})
        /\ fails' = Inserted(fails, FreshId, 0)
        /\ loc' = [loc EXCEPT ![a].task_ids = Append(@, FreshId)]
  /\ UNCHANGED <<clock, pc, last, twin, daemon, returns, agent, bulk>>

\* the loop is over: return task_ids
BatchReturn(a) ==
  /\ pc[a] = "batch_loop"
  /\ Len(loc[a].task_ids) = Len(loc[a].data_list)
  /\ last' = BatchCall(loc[a], ReturnedIds(loc[a].task_ids), NULL)
  /\ pc' = [pc EXCEPT ![a] = "idle"]
  /\ loc' = [loc EXCEPT ![a] = Idle]
  /\ UNCHANGED <<store, clock, holders, fails, twin, daemon, returns, agent, bulk>>

\* the process dies, or push raises, between two committed INSERTs: the
\* call ends without a value, what was committed stays
BatchInterrupt(a) ==
  /\ pc[a] = "batch_loop"
  /\ Len(loc[a].task_ids) < Len(loc[a].data_list)
  /\ last' = BatchCall(loc[a], None, "interrupted")
  /\ pc' = [pc EXCEPT ![a] = "idle"]
  /\ loc' = [loc EXCEPT ![a] = Idle]
  /\ UNCHANGED <<store, clock, holders, fails, twin, daemon, returns, agent, bulk>>

\* a producer that submits batches, and an agent that claims between them
NextBatch ==
  \/ Tick
  \/ BatchStart("a1")
  \/ BatchSubmit("a1")
  \/ BatchReturn("a1")
  \/ BatchInterrupt("a1")
  \/ pc["a1"] = "idle" /\ SeqGetNext("a2")

SpecBatch == Init /\ [][NextBatch]_vars

\* ------------------------------------------- the backend's retry, called
\* tasks pushed with a budget of 0 or 2 retries, claimed and requeued
NextRequeue ==
  \/ SeqPushTask(MaxRequeueTasks, {NORMAL}, {0, 2})
  \/ SeqGetNext("a1")
  \/ \E id \in 1..MaxRequeueTasks : SeqRetry(id)

SpecRequeue == Init /\ [][NextRequeue]_vars

\* ------------------------------ claimed tasks are completed or are failed
\* complete on a task that is claimed, with one of two results
CompleteClaimed(id, result) ==
  /\ id \in DOMAIN store
  /\ store[id].status = PROCESSING
  /\ SeqComplete(id, result)

\* fail on a task that is claimed, with one of two error messages
FailClaimed(id, error) ==
  /\ id \in DOMAIN store
  /\ store[id].status = PROCESSING
  /\ SeqFail(id, error)

\* a producer and an agent whose tasks all fail
NextFailing ==
  \/ SeqSubmit(MaxClaimedTasks, {Arg(NORMAL)})
  \/ \E a \in Agents : SeqGetNext(a)
  \/ \E id \in 1..MaxClaimedTasks, e \in {"e1", "e2"} : FailClaimed(id, e)

SpecFailing == Init /\ [][NextFailing]_vars

\* a producer and an agent whose tasks all succeed
NextCompleting ==
  \/ Tick
  \/ SeqSubmit(MaxClaimedTasks, {Arg(NORMAL)})
  \/ SeqGetNext("a1")
  \/ \E id \in 1..MaxClaimedTasks, r \in Results : CompleteClaimed(id, r)

SpecCompleting == Init /\ [][NextCompleting]_vars

\* ------------------- complete or fail by a1 while a2 runs get_next
\* a1 is about to call complete or fail on a task it holds while a2 is
\* about to call get_next: the table as it is before the two calls
RaceCall(id, call, arg, before) ==
  [op |-> "race", id |-> id, value |-> None, raised |-> NULL,
   call |-> call, arg |-> arg, before |-> before]

RaceIssue ==
  /\ last.op # "race"
  /\ WithStatus(store, PENDING) # {}
  /\ \E id \in WithStatus(store, PROCESSING) :
       \/ \E r \in {"r1"} : last' = RaceCall(id, "complete", r, store)
       \/ \E e \in Errors : last' = RaceCall(id, "fail", e, store)
  /\ UNCHANGED <<store, clock, pc, loc, holders, fails, twin, daemon, returns, agent, bulk>>

\* a1's call, its first statement
RaceBegin(a) ==
  /\ last.op = "race"
  /\ store[last.id] = last.before[last.id]
  /\ IF last.call = "complete"
     THEN Complete(a, last.id, last.arg)
     ELSE RetrySelect(a, last.id, last.arg)

\* a2's get_next, its SELECT
RacePop(a) ==
  /\ last.op = "race"
  /\ \A id \in DOMAIN holders : a \notin holders[id]
  /\ PopSelect(a)

\* both calls have returned
RaceDone ==
  /\ last.op = "race"
  /\ \A a \in Agents : pc[a] = "idle"
  /\ store[last.id] # last.before[last.id]
  /\ \E id \in DOMAIN holders : "a2" \in holders[id]

\* mutant: the fail that does not retry the error "e2"
AfterCallPermanentError(s, id, call, arg, now) ==
  IF call = "complete" THEN CompleteUpdate(s, id, now, arg)
  ELSE IF RetryRefused(s, id) \/ arg = "e2" THEN FailUpdate(s, id, now, arg)
  ELSE RetryUpdate(s, id)

\* the table after complete / fail as one call on table s at time now
AfterCall(s, id, call, arg, now) ==
  IF call = "complete" THEN CompleteUpdate(s, id, now, arg)
  ELSE IF RetryRefused(s, id) THEN FailUpdate(s, id, now, arg)
  ELSE RetryUpdate(s, id)

\* the tables after get_next as one call on table s at time now
AfterGetNext(s, a, now) ==
  IF PopCandidates(s) = {} THEN {s}
  ELSE {PopUpdate(s, row.id, now, a) : row \in PopCandidates(s)}

\* the tables the two calls leave when one runs after the other
OneAfterTheOther(s, id, call, arg, a) ==
  UNION {
    {AfterCall(s1, id, call, arg, t2) : s1 \in AfterGetNext(s, a, t1)}
      \cup AfterGetNext(AfterCall(s, id, call, arg, t1), a, t2) :
    t1 \in 0..MaxClock, t2 \in 0..MaxClock}

NextRace ==
  \/ Tick
  \/ last.op # "race" /\ SeqPushTask(MaxRaceTasks, {NORMAL}, {0, 1})
  \/ last.op # "race" /\ SeqGetNext("a1") /\ clock' = clock
  \/ RaceIssue
  \/ RaceBegin("a1")
  \/ RetryCommit("a1")
  \/ FailCommit("a1")
  \/ RacePop("a2")
  \/ PopCommit("a2")
  \/ PopReturn("a2")

SpecRace == Init /\ [][NextRace]_vars

\* ---------------------- execute, commit, return: a caller that may die
\* what a call's INSERT or UPDATE makes of the table, on its connection
\* and not yet committed: push, pop, complete, TaskQueue.fail, retry
DurableWrites(a) ==
  {[op |-> "push", id |-> FreshId, before |-> store,
    pending |-> InsertRow(store, NewTask(FreshId, op, so, d, NORMAL, 1, clock))] :
     op \in {o \in Operations : FreshId <= MaxDurableTasks},
     so \in SObjects, d \in DataVals}
  \cup
  {[op |-> "get_next", id |-> row.id, before |-> store,
    pending |-> PopUpdate(store, row.id, clock, a)] :
     row \in PopCandidates(store)}
  \cup
  {[op |-> "complete", id |-> id, before |-> store,
    pending |-> CompleteUpdate(store, id, clock, "r1")] : id \in DOMAIN store}
  \cup
  {[op |-> "fail", id |-> id, before |-> store,
    pending |-> IF RetryRefused(store, id)
                THEN FailUpdate(store, id, clock, "e1")
                ELSE RetryUpdate(store, id)] : id \in DOMAIN store}
  \cup
  {[op |-> "retry", id |-> id, before |-> store,
    pending |-> RetryUpdate(store, id)] :
     id \in {i \in DOMAIN store : ~RetryRefused(store, i)}}

\* the end of a call: it returned (NULL) or its process died
DurableCall(l, exception) ==
  [op |-> l.op, id |-> l.id, value |-> None, raised |-> exception,
   before |-> l.before, pending |-> l.pending]

\* conn.execute(INSERT / UPDATE): the write is in the connection's
\* transaction, not in the database file
DurableExecute(a) ==
  /\ pc[a] = "idle"
  /\ \E l \in DurableWrites(a) : loc' = [loc EXCEPT ![a] = l]
  /\ pc' = [pc EXCEPT ![a] = "executed"]
  /\ UNCHANGED <<store, clock, last, holders, fails, twin, daemon, returns, agent, bulk>>

\* mutant: the call that closes its connection without conn.commit()
DurableCommitMissing(a) ==
  /\ pc[a] = "executed"
  /\ pc' = [pc EXCEPT ![a] = "committed"]
  /\ UNCHANGED <<store, clock, loc, last, holders, fails, twin, daemon, returns, agent, bulk>>

\* conn.commit()
DurableCommit(a) ==
  /\ pc[a] = "executed"
  /\ store' = loc[a].pending
  /\ pc' = [pc EXCEPT ![a] = "committed"]
  /\ UNCHANGED <<clock, loc, last, holders, fails, twin, daemon, returns, agent, bulk>>

\* conn.close() and the return
DurableReturn(a) ==
  /\ pc[a] = "committed"
  /\ last' = DurableCall(loc[a], NULL)
  /\ pc' = [pc EXCEPT ![a] = "idle"]
  /\ loc' = [loc EXCEPT ![a] = Idle]
  /\ UNCHANGED <<store, clock, holders, fails, twin, daemon, returns, agent, bulk>>

\* the process dies inside the call: SQLite rolls an open transaction
\* back, a committed one stays
DurableCrash(a) ==
  /\ pc[a] \in {"executed", "committed"}
  /\ last' = DurableCall(loc[a], IF pc[a] = "executed"
                                 THEN "died before commit"
                                 ELSE "died after commit")
  /\ pc' = [pc EXCEPT ![a] = "idle"]
  /\ loc' = [loc EXCEPT ![a] = Idle]
  /\ UNCHANGED <<store, clock, holders, fails, twin, daemon, returns, agent, bulk>>

NextDurable ==
  \/ DurableExecute("a1")
  \/ DurableCommit("a1")
  \/ DurableReturn("a1")
  \/ DurableCrash("a1")

SpecDurable == Init /\ [][NextDurable]_vars

\* --------------------- two runs of the same calls, other error strings
\* push(Task(..., max_retries=1)) under the same fresh id in both runs
TwinPush ==
  /\ FreshId <= MaxTwinTasks
  /\ \E op \in Operations, so \in SObjects, d \in DataVals :
       LET task == NewTask(FreshId, op, so, d, NORMAL, 1, clock)
       IN /\ store' = InsertRow(store, task)
          /\ twin' = InsertRow(twin, task)
          /\ last' = Call("push", task.id, None, NULL)
  /\ holders' = Inserted(holders, FreshId, {})
  /\ fails' = Inserted(fails, FreshId, 0)
  /\ UNCHANGED <<clock, pc, loc, daemon, returns, agent, bulk>>

\* get_next(a) in both runs; rows that compare equal come in the same
\* order in both
TwinGetNext(a) ==
  /\ \/ /\ PopCandidates(store) = {}
        /\ store' = store
     \/ \E row \in PopCandidates(store) :
          store' = PopUpdate(store, row.id, clock, a)
  /\ \/ /\ PopCandidates(twin) = {}
        /\ twin' = twin
     \/ \E row \in PopCandidates(twin) :
          /\ twin' = PopUpdate(twin, row.id, clock, a)
          /\ store'[row.id].status = PROCESSING
               \/ {r.id : r \in PopCandidates(twin)}
                    # {r.id : r \in PopCandidates(store)}
  /\ last' = Call("get_next", 0, None, NULL)
  /\ UNCHANGED <<clock, pc, loc, holders, fails, daemon, returns, agent, bulk>>

\* complete(id, result) in both runs
TwinComplete(id, result) ==
  /\ store' = AfterCall(store, id, "complete", result, clock)
  /\ twin' = AfterCall(twin, id, "complete", result, clock)
  /\ last' = Call("complete", id, None, NULL)
  /\ UNCHANGED <<clock, pc, loc, holders, fails, daemon, returns, agent, bulk>>

\* fail(id, e1) in one run and fail(id, e2) in the other
TwinFail(id, e1, e2) ==
  /\ store' = AfterCall(store, id, "fail", e1, clock)
  /\ twin' = AfterCall(twin, id, "fail", e2, clock)
  /\ last' = Call("fail", id, None, NULL)
  /\ UNCHANGED <<clock, pc, loc, holders, fails, daemon, returns, agent, bulk>>

NextTwin ==
  \/ TwinPush
  \/ \E a \in Agents : TwinGetNext(a)
  \/ \E id \in 1..MaxTwinTasks : TwinComplete(id, "r1")
  \/ \E id \in 1..MaxTwinTasks, e2 \in {"e1", "e2"} : TwinFail(id, "e1", e2)

SpecTwin == Init /\ [][NextTwin]_vars

\* ------------------------------------------------------------ the daemon
\* the agent id of the daemon: f"daemon-{self.username}"
DaemonAgent == "daemon-u1"
\* the operation names _process_task dispatches on
KnownOperations == {"create", "update", "delete", "query", "bulk_insert"}
\* the operation names the producers of the daemon scenarios submit
SubmittedOperations == {"create", "export"}

Min(a, b) == IF a <= b THEN a ELSE b

\* mutant: the sleep without the cap of 30
SleepTimeUncapped(idle_count) == 2 ^ Min(idle_count \div 10, 5)

\* sleep_time = min(30, 2 ** min(idle_count // 10, 5))
SleepTime(idle_count) == Min(30, 2 ^ Min(idle_count \div 10, 5))

\* mutant: the dispatch that reports nothing for an unknown operation
ReportsSkipUnknown(operation, raised) ==
  IF operation \notin KnownOperations THEN <<>>
  ELSE IF raised THEN <<"fail">>
  ELSE <<"complete">>

\* _process_task: the queue calls it makes for a task, in order. An unknown
\* operation raises ValueError; an exception of the client or the raised
\* ValueError is caught and reported with queue.fail, else queue.complete
Reports(operation, raised) ==
  IF operation \notin KnownOperations \/ raised THEN <<"fail">>
  ELSE <<"complete">>

\* the table after the queue calls of one _process_task
RECURSIVE AfterReports(_, _, _, _)
AfterReports(s, id, calls, now) ==
  IF calls = <<>> THEN s
  ELSE AfterReports(AfterCall(s, id, Head(calls),
                              IF Head(calls) = "complete" THEN "r1" ELSE "e1",
                              now),
                    id, Tail(calls), now)

\* the number of entries of a sequence that equal x
Count(seq, x) == Cardinality({i \in DOMAIN seq : seq[i] = x})

\* a producer submits a task of a known or of an unknown operation
DaemonSubmit(N) ==
  \E op \in SubmittedOperations, so \in SObjects, d \in DataVals :
    /\ FreshId <= N
    /\ store' = InsertRow(store, NewTask(FreshId, op, so, d, NORMAL,
                                         DefaultMaxRetries, clock))
    /\ holders' = Inserted(holders, FreshId, {})
    /\ fails' = Inserted(fails, FreshId, 0)
    /\ last' = SubmitCall(FreshId, op, so, d, Arg(NORMAL))
    /\ UNCHANGED <<clock, pc, loc, twin, daemon, returns, agent, bulk>>

\* start(): self.running = True, then _run_loop: idle_count = 0
DaemonStart ==
  /\ daemon.pos = "init"
  /\ daemon' = [daemon EXCEPT !.running = TRUE, !.pos = "loop",
                              !.idle_count = 0]
  /\ UNCHANGED <<store, clock, pc, loc, last, holders, fails, twin, returns, agent, bulk>>

\* _handle_shutdown, on SIGINT or SIGTERM: self.running = False
DaemonShutdown ==
  /\ daemon.running
  /\ daemon' = [daemon EXCEPT !.running = FALSE]
  /\ UNCHANGED <<store, clock, pc, loc, last, holders, fails, twin, returns, agent, bulk>>

\* while self.running: the loop ends at its head
DaemonStop ==
  /\ daemon.pos = "loop"
  /\ ~daemon.running
  /\ daemon' = [daemon EXCEPT !.pos = "stopped"]
  /\ UNCHANGED <<store, clock, pc, loc, last, holders, fails, twin, returns, agent, bulk>>

\* mutant: the loop test that does not read self.running
DaemonEnterAlways(maxIdle) ==
  /\ daemon.pos = "loop"
  /\ PopCandidates(store) # {} \/ daemon.idle_count < maxIdle
  /\ daemon' = [daemon EXCEPT !.pos = "body"]
  /\ UNCHANGED <<store, clock, pc, loc, last, holders, fails, twin, returns,
                 agent, bulk>>

\* while self.running: the test passes and the body is entered (a pass
\* that would count idle_count beyond maxIdle is not begun)
DaemonEnter(maxIdle) ==
  /\ daemon.pos = "loop"
  /\ daemon.running
  /\ PopCandidates(store) # {} \/ daemon.idle_count < maxIdle
  /\ daemon' = [daemon EXCEPT !.pos = "body"]
  /\ UNCHANGED <<store, clock, pc, loc, last, holders, fails, twin, returns,
                 agent, bulk>>

\* the body of the loop up to the branch: get_next; with a task
\* idle_count = 0 and _process_task is entered, without one idle_count
\* grows by one and the daemon sleeps sleep_time. The status log of the
\* loop reads the stats and writes nothing. late_claims records the
\* claims made when self.running was already False.
DaemonPoll ==
  /\ daemon.pos = "body"
  /\ IF PopCandidates(store) = {}
     THEN /\ daemon' = [daemon EXCEPT
                          !.pos = "loop",
                          !.idle_count = daemon.idle_count + 1,
                          !.sleep_time = SleepTime(daemon.idle_count + 1)]
          /\ UNCHANGED <<store, holders>>
     ELSE \E row \in PopCandidates(store) :
            /\ store' = PopUpdate(store, row.id, clock, DaemonAgent)
            /\ holders' = Given(holders, row.id, DaemonAgent)
            /\ daemon' = [daemon EXCEPT
                            !.idle_count = 0, !.pos = "process",
                            !.task = PoppedTask(row, clock, DaemonAgent),
                            !.calls = <<>>, !.raised = FALSE,
                            !.late_claims =
                               IF daemon.running THEN @ ELSE @ + 1]
  /\ UNCHANGED <<clock, pc, loc, last, fails, twin, returns, agent, bulk>>

\* _process_task(task): the client call returns or raises, the outcome is
\* reported to the queue and counted
DaemonProcess ==
  /\ daemon.pos = "process"
  /\ \E raised \in BOOLEAN :
       LET calls == Reports(daemon.task.operation, raised)
       IN /\ store' = AfterReports(store, daemon.task.id, calls, clock)
          /\ daemon' = [daemon EXCEPT
                          !.pos = "loop", !.calls = calls,
                          !.raised = raised
                                     \/ daemon.task.operation \notin KnownOperations,
                          !.tasks_processed = @ + Count(calls, "complete"),
                          !.tasks_failed = @ + Count(calls, "fail")]
          /\ holders' = IF store'[daemon.task.id].status = PENDING
                        THEN Requeued(holders, daemon.task.id) ELSE holders
  /\ UNCHANGED <<clock, pc, loc, last, fails, twin, returns, agent, bulk>>

\* the daemon and a producer; the queue stays empty long enough for the
\* sleep to reach its cap
NextBackoff ==
  \/ DaemonSubmit(MaxBackoffTasks)
  \/ DaemonStart
  \/ DaemonShutdown
  \/ DaemonStop
  \/ DaemonEnter(MaxIdle)
  \/ DaemonPoll
  \/ DaemonProcess

SpecBackoff == Init /\ [][NextBackoff]_vars

\* the daemon and a producer of several tasks
NextDaemon ==
  \/ DaemonSubmit(MaxDaemonTasks)
  \/ DaemonStart
  \/ DaemonShutdown
  \/ DaemonStop
  \/ DaemonEnter(MaxDaemonIdle)
  \/ DaemonPoll
  \/ DaemonProcess

SpecDaemon == Init /\ [][NextDaemon]_vars

\* the thread of the daemon goes on: a _process_task that was entered
\* runs to its end (the client call returns or raises, and the report
\* follows), a body that was entered polls, a false loop test ends the loop
SpecDaemonFair ==
  /\ SpecDaemon
  /\ WF_vars(DaemonProcess)
  /\ WF_vars(DaemonPoll)
  /\ WF_vars(DaemonStop)

\* ------------------------------- worker loops side by side, by statement
\* one more return of a task by get_next
Counted(r, id) ==
  [i \in DOMAIN r \cup {id} |->
     IF i \notin DOMAIN r THEN 1 ELSE IF i = id THEN r[i] + 1 ELSE r[i]]

\* how often get_next returned the task
Returns(id) == IF id \in DOMAIN returns THEN returns[id] ELSE 0

\* pop returns the Task to the loop of worker a, which enters _process_task
WorkerTakes(a) ==
  /\ pc[a] = "pop_return"
  /\ pc' = [pc EXCEPT ![a] = "process"]
  /\ loc' = [loc EXCEPT ![a] = [op |-> "process",
                                task |-> PoppedTask(loc[a].row, clock, a)]]
  /\ UNCHANGED <<store, clock, last, holders, fails, twin, daemon, agent, bulk>>

WorkerReturn(a) == WorkerTakes(a) /\ UNCHANGED returns

\* the same return, counted
CountedReturn(a) ==
  WorkerTakes(a) /\ returns' = Counted(returns, loc[a].row.id)

\* _process_task of worker a, the operation returned: queue.complete
WorkerComplete(a) ==
  /\ pc[a] = "process"
  /\ store' = CompleteUpdate(store, loc[a].task.id, clock, "r1")
  /\ pc' = [pc EXCEPT ![a] = "idle"]
  /\ loc' = [loc EXCEPT ![a] = Idle]
  /\ UNCHANGED <<clock, last, holders, fails, twin, daemon, returns, agent, bulk>>

\* _process_task of worker a, the operation raised: queue.fail, whose first
\* statement is the SELECT of retry
WorkerFail(a) ==
  /\ pc[a] = "process"
  /\ pc' = [pc EXCEPT ![a] = IF RetryRefused(store, loc[a].task.id)
                            THEN "fail_update" ELSE "retry_update"]
  /\ loc' = [loc EXCEPT ![a] = [op |-> "fail", id |-> loc[a].task.id,
                                error |-> "e1"]]
  /\ UNCHANGED <<store, clock, last, holders, fails, twin, daemon, returns, agent, bulk>>

\* the statements of the loop of worker a but the return of pop
WorkerCalls(a) ==
  \/ PopSelect(a)
  \/ PopCommit(a)
  \/ WorkerComplete(a)
  \/ WorkerFail(a)
  \/ RetryCommit(a)
  \/ FailCommit(a)

\* the next statement of the loop of worker a
WorkerStep(a) == WorkerCalls(a) \/ WorkerReturn(a)

NextWorkers ==
  \/ SeqPushTask(MaxWorkerTasks, {NORMAL}, {1})
  \/ \E a \in Agents : WorkerStep(a)

SpecWorkers == Init /\ [][NextWorkers]_vars

\* the worker loops with the returns of get_next counted
NextCounted ==
  \/ SeqPushTask(MaxCountedTasks, {NORMAL}, {0, 1})
  \/ \E a \in Agents : WorkerCalls(a)
  \/ \E a \in Agents : CountedReturn(a)

SpecCounted == Init /\ [][NextCounted]_vars

\* every worker keeps polling and finishes the calls it began
SpecWorkersFair == SpecWorkers /\ \A a \in Agents : WF_vars(WorkerStep(a))

\* ------------------------------------------------------------- the agent
\* config.agent_id
AgentId == "agent-1"
\* the keys of self._handlers
AgentHandlers == {"create", "get", "update", "delete", "upsert", "query",
                  "bulk_insert", "bulk_update", "bulk_delete"}

\* _process_task of the agent: queue.complete when the handler returned,
\* queue.fail when there is no handler or the handler raised
AgentReport(operation, raised) ==
  IF operation \notin AgentHandlers \/ raised THEN "fail" ELSE "complete"

\* start(): self._running = True, the executor is created, _process_loop
AgentStart ==
  /\ agent.pos = "init"
  /\ agent' = [agent EXCEPT !.running = TRUE, !.pos = "loop"]
  /\ UNCHANGED <<store, clock, pc, loc, last, holders, fails, twin, daemon,
                 returns, bulk>>

\* _process_loop up to the branch: get_next; without a task the loop counts
\* and sleeps, with one it goes on to hand it to the executor
AgentPoll ==
  /\ agent.pos = "loop"
  /\ agent.running
  /\ ~agent.in_handler
  /\ IF PopCandidates(store) = {}
     THEN /\ agent.consecutive_empty < MaxEmpty
          /\ agent' = [agent EXCEPT !.consecutive_empty = @ + 1]
          /\ UNCHANGED <<store, holders>>
     ELSE \E row \in PopCandidates(store) :
            /\ store' = PopUpdate(store, row.id, clock, AgentId)
            /\ holders' = Given(holders, row.id, AgentId)
            /\ agent' = [agent EXCEPT
                           !.pos = "submit",
                           !.task = PoppedTask(row, clock, AgentId),
                           !.claimed = @ + 1]
  /\ UNCHANGED <<clock, pc, loc, last, fails, twin, daemon, returns, bulk>>

\* consecutive_empty = 0; self._executor.submit(self._process_task, task):
\* after shutdown() submit raises RuntimeError, which the except of the
\* loop logs before it sleeps and goes round again
AgentSubmit ==
  /\ agent.pos = "submit"
  /\ ~agent.in_handler
  /\ agent' = IF agent.shutdown
              THEN [agent EXCEPT !.pos = "loop", !.consecutive_empty = 0,
                                 !.task = None]
              ELSE [agent EXCEPT !.pos = "loop", !.consecutive_empty = 0,
                                 !.task = None,
                                 !.executor = @ \cup {agent.task},
                                 !.handed = @ + 1]
  /\ UNCHANGED <<store, clock, pc, loc, last, holders, fails, twin, daemon,
                 returns, bulk>>

\* while self._running: the loop ends at its head
AgentLoopExit ==
  /\ agent.pos = "loop"
  /\ ~agent.running
  /\ ~agent.in_handler
  /\ agent' = [agent EXCEPT !.pos = "stopped"]
  /\ UNCHANGED <<store, clock, pc, loc, last, holders, fails, twin, daemon,
                 returns, bulk>>

\* a thread of the executor runs _process_task(task) and reports
AgentProcess ==
  \E task \in agent.executor, raised \in BOOLEAN :
    /\ store' = AfterCall(store, task.id,
                          AgentReport(task.operation, raised),
                          IF raised THEN "e1" ELSE "r1", clock)
    /\ holders' = IF store'[task.id].status = PENDING
                  THEN Requeued(holders, task.id) ELSE holders
    /\ agent' = [agent EXCEPT !.executor = @ \ {task}, !.reported = @ + 1]
    /\ UNCHANGED <<clock, pc, loc, last, fails, twin, daemon, returns, bulk>>

\* SIGINT or SIGTERM: _handle_shutdown runs stop() in the main thread,
\* between two statements of the loop: self._running = False and
\* self._executor.shutdown(wait=True), which blocks until the executor has
\* run what it was given
AgentStop ==
  /\ agent.pos \in {"loop", "submit"}
  /\ agent.running
  /\ agent' = [agent EXCEPT !.running = FALSE, !.shutdown = TRUE,
                            !.in_handler = TRUE]
  /\ UNCHANGED <<store, clock, pc, loc, last, holders, fails, twin, daemon,
                 returns, bulk>>

\* shutdown(wait=True) returns, the handler returns, the loop resumes
AgentStopReturn ==
  /\ agent.in_handler
  /\ agent.executor = {}
  /\ agent' = [agent EXCEPT !.in_handler = FALSE]
  /\ UNCHANGED <<store, clock, pc, loc, last, holders, fails, twin, daemon,
                 returns, bulk>>

NextAgent ==
  \/ SeqPushTask(MaxAgentTasks, {NORMAL}, {1})
  \/ AgentStart
  \/ AgentPoll
  \/ AgentSubmit
  \/ AgentLoopExit
  \/ AgentProcess
  \/ AgentStop
  \/ AgentStopReturn

SpecAgent == Init /\ [][NextAgent]_vars

\* ------------------------------------------- Task.to_dict / Task.from_dict
\* the members of the two Enum classes, and the value of each member
TaskStatusMembers ==
  {[enum |-> "TaskStatus", name |-> n] :
     n \in {"PENDING", "PROCESSING", "COMPLETED", "FAILED", "RETRYING"}}
TaskPriorityMembers ==
  {[enum |-> "TaskPriority", name |-> n] :
     n \in {"LOW", "NORMAL", "HIGH", "URGENT"}}

EnumValue(member) ==
  CASE member.name = "PENDING" -> PENDING
    [] member.name = "PROCESSING" -> PROCESSING
    [] member.name = "COMPLETED" -> COMPLETED
    [] member.name = "FAILED" -> FAILED
    [] member.name = "RETRYING" -> RETRYING
    [] member.name = "LOW" -> LOW
    [] member.name = "NORMAL" -> NORMAL
    [] member.name = "HIGH" -> HIGH
    [] member.name = "URGENT" -> URGENT

\* TaskStatus(value), TaskPriority(value): the member of that value
EnumOf(members, value) == CHOOSE m \in members : EnumValue(m) = value

\* Task objects: status and priority are Enum members, the optional
\* fields are None (NULL, NoTime) or set
TaskObjects ==
  [id : {1}, operation : Operations, sobject : SObjects, data : DataVals,
   status : TaskStatusMembers, priority : TaskPriorityMembers,
   created_at : {0}, started_at : {NoTime, 0}, completed_at : {NoTime},
   result : {NULL, "r1"}, error : {NULL}, retry_count : {0, 1},
   max_retries : {DefaultMaxRetries}, agent_id : {NULL, "a1"}]

\* to_dict: d = asdict(self); d['status'] = self.status.value;
\* d['priority'] = self.priority.value
ToDict(task) ==
  [task EXCEPT !.status = EnumValue(task.status),
               !.priority = EnumValue(task.priority)]

\* mutant: the from_dict that takes the default status of the dataclass
FromDictDefaultStatus(d) ==
  [d EXCEPT !.status = EnumOf(TaskStatusMembers, PENDING),
            !.priority = EnumOf(TaskPriorityMembers, d.priority)]

\* from_dict: d['status'] = TaskStatus(d['status']);
\* d['priority'] = TaskPriority(d['priority']); cls(**d)
FromDict(d) ==
  [d EXCEPT !.status = EnumOf(TaskStatusMembers, d.status),
            !.priority = EnumOf(TaskPriorityMembers, d.priority)]

\* Task(...): a Task object is built
SerialTask ==
  /\ last.op \in {"init", "from_dict"}
  /\ \E task \in TaskObjects :
       last' = [op |-> "Task", value |-> task]
  /\ UNCHANGED <<store, clock, pc, loc, holders, fails, twin, daemon,
                 returns, agent, bulk>>

\* d = t.to_dict()
SerialToDict ==
  /\ last.op = "Task"
  /\ last' = [op |-> "to_dict", self |-> last.value,
              value |-> ToDict(last.value)]
  /\ UNCHANGED <<store, clock, pc, loc, holders, fails, twin, daemon,
                 returns, agent, bulk>>

\* Task.from_dict(d)
SerialFromDict ==
  /\ last.op = "to_dict"
  /\ last' = [op |-> "from_dict", self |-> last.self, d |-> last.value,
              value |-> FromDict(last.value)]
  /\ UNCHANGED <<store, clock, pc, loc, holders, fails, twin, daemon,
                 returns, agent, bulk>>

NextSerial ==
  \/ SerialTask
  \/ SerialToDict
  \/ SerialFromDict

SpecSerial == Init /\ [][NextSerial]_vars

\* -------------------------------------------------- BulkClient._execute_job
\* BulkOperation values
BulkOperations == {"insert", "update", "upsert", "delete", "hardDelete"}
\* the JobState values that end the polling
FinalJobStates == {"JobComplete", "Failed", "Aborted"}
\* the steps inside the try block and what follows each, in the order of
\* the code
AfterStep(step) ==
  CASE step = "upload" -> "close"
    [] step = "close" -> "poll"
    [] step = "poll" -> "results"
    [] step = "results" -> "return"

\* the requests a step sends: _get_results fetches the successful and the
\* failed result set
StepRequests(step) ==
  IF step = "results" THEN <<"successfulResults", "failedResults">>
  ELSE <<step>>

\* _execute_job is called; 1. _create_job: the POST; a status other than
\* 200 raises BulkAPIError before the try block is entered
BulkCreate ==
  /\ bulk.pos = "init"
  /\ \E operation \in BulkOperations, ok \in BOOLEAN :
       bulk' = [bulk EXCEPT
                  !.operation = operation,
                  !.requests = <<"create">>,
                  !.pos = IF ok THEN "upload" ELSE "done",
                  !.raised = IF ok THEN NULL ELSE "create failed"]
  /\ UNCHANGED <<store, clock, pc, loc, last, holders, fails, twin, daemon,
                 returns, agent>>

\* 2. to 5. succeed: _upload_data, _close_job, a poll that finds a final
\* state, _get_results (a result set answered with another status than 200
\* is an empty list, not an error)
BulkStepDone ==
  /\ bulk.pos \in {"upload", "close", "poll", "results"}
  /\ \E state \in FinalJobStates :
       bulk' = [bulk EXCEPT
                  !.requests = @ \o StepRequests(bulk.pos),
                  !.pos = AfterStep(bulk.pos),
                  !.polls = IF bulk.pos = "poll" THEN @ + 1 ELSE @,
                  !.state = IF bulk.pos = "poll" THEN state ELSE @]
  /\ UNCHANGED <<store, clock, pc, loc, last, holders, fails, twin, daemon,
                 returns, agent>>

\* 4. a poll that finds the job open or in progress: sleep and poll again
BulkPollAgain ==
  /\ bulk.pos = "poll"
  /\ bulk.polls < MaxPolls
  /\ bulk' = [bulk EXCEPT !.requests = Append(@, "poll"), !.polls = @ + 1]
  /\ UNCHANGED <<store, clock, pc, loc, last, holders, fails, twin, daemon,
                 returns, agent>>

\* a step inside the try block raises at one of its requests (BulkAPIError
\* on an unexpected status or on the timeout of the polling, or an
\* exception of the session): the except branch is entered
BulkStepFails ==
  /\ bulk.pos \in {"upload", "close", "poll", "results"}
  /\ \E k \in DOMAIN StepRequests(bulk.pos) :
       bulk' = [bulk EXCEPT
                  !.requests = @ \o SubSeq(StepRequests(bulk.pos), 1, k),
                  !.failed_step = bulk.pos,
                  !.pos = "except"]
  /\ UNCHANGED <<store, clock, pc, loc, last, holders, fails, twin, daemon,
                 returns, agent>>

\* mutant: the except branch that lets the error of the abort escape
BulkAbortEscapes ==
  /\ bulk.pos = "except"
  /\ \E abort_raised \in BOOLEAN :
       bulk' = [bulk EXCEPT
                  !.requests = Append(@, "abort"),
                  !.pos = "done",
                  !.abort_raised = abort_raised,
                  !.raised = IF abort_raised THEN "abort failed"
                             ELSE bulk.failed_step \o " failed"]
  /\ UNCHANGED <<store, clock, pc, loc, last, holders, fails, twin, daemon,
                 returns, agent>>

\* except Exception: try: self._abort_job(job_id) except: pass; raise.
\* The PATCH of the abort is sent, its answer is not looked at and its
\* exception is dropped; the error of the step is raised again
BulkAbort ==
  /\ bulk.pos = "except"
  /\ \E abort_raised \in BOOLEAN :
       bulk' = [bulk EXCEPT
                  !.requests = Append(@, "abort"),
                  !.pos = "done",
                  !.abort_raised = abort_raised,
                  !.raised = bulk.failed_step \o " failed"]
  /\ UNCHANGED <<store, clock, pc, loc, last, holders, fails, twin, daemon,
                 returns, agent>>

\* return result: the BulkJobResult with the final state of the job
BulkReturn ==
  /\ bulk.pos = "return"
  /\ bulk' = [bulk EXCEPT !.pos = "done", !.returned = bulk.state]
  /\ UNCHANGED <<store, clock, pc, loc, last, holders, fails, twin, daemon,
                 returns, agent>>

NextBulk ==
  \/ BulkCreate
  \/ BulkStepDone
  \/ BulkPollAgain
  \/ BulkStepFails
  \/ BulkAbort
  \/ BulkReturn

SpecBulk == Init /\ [][NextBulk]_vars

\* ================================================================ claims

\* C1: mutual exclusion of claim: between two requeues of a task get_next
\* returns it to at most one caller, so no task is held by two lease
\* owners at the same time.
C1_MutualExclusion ==
  \A id \in DOMAIN holders : Cardinality(holders[id]) <= 1

\* C2: terminal states are final: once a task is Completed or Failed no
\* call changes its status, result or error.
C2_TerminalFinal ==
  [][\A id \in DOMAIN store :
       store[id].status \in {COMPLETED, FAILED} =>
         /\ store'[id].status = store[id].status
         /\ store'[id].result = store[id].result
         /\ store'[id].error = store[id].error]_vars

\* C3: retry bound: a task with max_retries = 3 that is claimed and failed
\* is Pending with retry_count n after its n-th failure, n = 1, 2, 3, and
\* Failed after its 4th failure and from then on.
C3_RetryBound ==
  [][\A id \in DOMAIN store' :
       store'[id].max_retries = 3 =>
         /\ (id \in DOMAIN store /\ fails'[id] = fails[id] + 1
             /\ fails'[id] <= 3) =>
               /\ store'[id].status = PENDING
               /\ store'[id].retry_count = fails'[id]
         /\ fails'[id] >= 4 =>
               /\ store'[id].status = FAILED
               /\ store'[id].retry_count = 3]_vars

C3_Witness ==
  \E id \in DOMAIN store :
    /\ store[id].max_retries = 3
    /\ fails[id] = 5
    /\ store[id].status = FAILED

\* C4: every task has retry_count <= max_retries, also after concurrent
\* fail calls on the same id.
C4_RetryCountBounded ==
  \A id \in DOMAIN store : store[id].retry_count <= store[id].max_retries

\* C5: priority ordering: the task get_next returns had, when it was
\* selected, no Pending task of strictly higher priority beside it; with
\* Low, Urgent, Normal submitted in that order the claims return Urgent,
\* then Normal, then Low.
C5_PriorityOrdering ==
  [][GetNextReturnedTask =>
       /\ Claimed.status = PENDING
       /\ \A q \in Rows(store) :
            q.status = PENDING => q.priority <= Claimed.priority
       /\ (/\ DOMAIN store = {1, 2, 3}
           /\ store[1].priority = LOW
           /\ store[2].priority = URGENT
           /\ store[3].priority = NORMAL) =>
            /\ store[2].status = PENDING => last'.id = 2
            /\ (store[2].status # PENDING /\ store[3].status = PENDING)
                 => last'.id = 3
            /\ (store[2].status # PENDING /\ store[3].status # PENDING)
                 => last'.id = 1]_vars

C5_Witness ==
  /\ DOMAIN store = {1, 2, 3}
  /\ store[1].priority = LOW
  /\ store[2].priority = URGENT
  /\ store[3].priority = NORMAL
  /\ \A i \in 1..3 : store[i].status = PROCESSING
  /\ last.op = "get_next"
  /\ last.id = 1

C7_LeaseIffProcessing ==
  \A id \in DOMAIN store :
    (store[id].agent_id # NULL) <=> (store[id].status = PROCESSING)

\* C7, amended: a Processing task has a lease owner and a Pending task has
\* none; complete and the terminal fail leave agent_id as it was.
C7_LeaseAmended ==
  [][\A id \in DOMAIN store' :
       /\ store'[id].status = PROCESSING => store'[id].agent_id # NULL
       /\ store'[id].status = PENDING => store'[id].agent_id = NULL
       /\ (id \in DOMAIN store /\ store'[id].status \in {COMPLETED, FAILED})
            => store'[id].agent_id = store[id].agent_id]_vars

C7_Witness ==
  \E id \in DOMAIN store :
    /\ store[id].status = COMPLETED
    /\ store[id].agent_id # NULL

\* C8: idempotent completion: complete on a task that complete has already
\* completed does not raise and leaves result and completed_at as the
\* first call wrote them.
C8_IdempotentComplete ==
  [][(/\ last'.op = "complete"
      /\ CallStep
      /\ last'.id \in DOMAIN store
      /\ store[last'.id].status = COMPLETED) =>
        /\ last'.raised = NULL
        /\ store'[last'.id].result = store[last'.id].result
        /\ store'[last'.id].completed_at = store[last'.id].completed_at]_vars

\* C9: complete and fail on an id that is not stored raise NotFoundError
\* and leave the store unchanged.
C9_NotFoundError ==
  [][(/\ last'.op \in {"complete", "fail"}
      /\ CallStep
      /\ last'.id \notin DOMAIN store) =>
        /\ last'.raised = "NotFoundError"
        /\ store' = store]_vars

\* C10: push of a task whose id is already stored raises an error, adds
\* no row and leaves the stored row unchanged.
C10_DuplicatePush ==
  [][(/\ last'.op = "push"
      /\ CallStep
      /\ last'.id \in DOMAIN store) =>
        /\ last'.raised = "IntegrityError"
        /\ store' = store]_vars

C10_Witness ==
  /\ last.op = "push"
  /\ last.raised = "IntegrityError"
  /\ last.id \in DOMAIN store

\* C11: stats consistency: after any sequence of submit, get_next, complete
\* and fail calls the total of stats() is the sum of its pending,
\* processing, completed and failed counts and is the number of tasks ever
\* submitted; stats() returns exactly these numbers.
C11_StatsConsistency ==
  LET stats == GetStats(store)
  IN /\ stats["total"] = stats[PENDING] + stats[PROCESSING]
                           + stats[COMPLETED] + stats[FAILED]
     /\ stats["total"] = Submitted
     /\ last.op = "stats" =>
          /\ last.value.stats["total"] =
               last.value.stats[PENDING] + last.value.stats[PROCESSING]
               + last.value.stats[COMPLETED] + last.value.stats[FAILED]
          /\ last.value.stats = stats

C11_Witness ==
  /\ last.op = "stats"
  /\ last.value.stats["total"] = 2
  /\ last.value.stats[COMPLETED] = 1
  /\ last.value.stats[FAILED] = 1
  /\ Submitted = 2

\* C12: scenario: ScenarioTasks (10) Normal tasks with max_retries = 1 are
\* stored and all claimed by one agent, 7 are completed and 3 failed, and
\* the 3 are claimed and failed once more; stats() then reports completed 7,
\* failed 3, pending 0, processing 0, total 10.
C12_Scenario ==
  (/\ last.op = "stats"
   /\ Cardinality({i \in DOMAIN fails : fails[i] = 2}) = ScenarioFailed
   /\ Cardinality(WithStatus(store, COMPLETED)) = ScenarioTasks - ScenarioFailed)
    => last.value.stats =
         [k \in {PENDING, PROCESSING, COMPLETED, FAILED, "total"} |->
            CASE k = COMPLETED -> ScenarioTasks - ScenarioFailed
              [] k = FAILED -> ScenarioFailed
              [] k = "total" -> ScenarioTasks
              [] OTHER -> 0]

C12_Witness ==
  /\ last.op = "stats"
  /\ Cardinality({i \in DOMAIN fails : fails[i] = 2}) = ScenarioFailed
  /\ last.value.stats[COMPLETED] = ScenarioTasks - ScenarioFailed
  /\ last.value.stats[FAILED] = ScenarioFailed
  /\ last.value.stats["total"] = ScenarioTasks

\* C13: only the edges of the per-task state machine occur: a status
\* changes only Pending -> Processing by get_next, Processing -> Completed
\* by complete, Processing -> Pending with retry_count + 1 by fail, or
\* Processing -> Failed by fail; complete or fail on a Pending task neither
\* completes it nor raises its retry_count.
C13_OnlyEdges ==
  [][\A id \in DOMAIN store :
       /\ store'[id].status # store[id].status =>
            \/ /\ store[id].status = PENDING
               /\ store'[id].status = PROCESSING
               /\ last'.op = "get_next"
            \/ /\ store[id].status = PROCESSING
               /\ store'[id].status = COMPLETED
               /\ last'.op = "complete"
            \/ /\ store[id].status = PROCESSING
               /\ store'[id].status = PENDING
               /\ store'[id].retry_count = store[id].retry_count + 1
               /\ last'.op = "fail"
            \/ /\ store[id].status = PROCESSING
               /\ store'[id].status = FAILED
               /\ last'.op = "fail"
       /\ store[id].status = PENDING =>
            /\ store'[id].status # COMPLETED
            /\ store'[id].retry_count = store[id].retry_count]_vars

\* C14: submit adds exactly one task, under a fresh id that it returns:
\* Pending, retry_count 0, max_retries 3, no lease owner, no started_at,
\* completed_at, result or error, with the operation, subject, payload and
\* priority it was given (Normal when the priority is left out); no stored
\* row changes, and pending and total of stats() each grow by 1.
C14_Submit ==
  [][(last'.op = "submit" /\ CallStep) =>
       LET id == last'.id
           args == last'.args
           row == store'[id]
       IN /\ id \notin DOMAIN store
          /\ DOMAIN store' = DOMAIN store \cup {id}
          /\ last'.value = ReturnedId(id)
          /\ last'.raised = NULL
          /\ row.id = id
          /\ row.status = PENDING
          /\ row.retry_count = 0
          /\ row.max_retries = 3
          /\ row.agent_id = NULL
          /\ row.started_at = NoTime
          /\ row.completed_at = NoTime
          /\ row.result = NULL
          /\ row.error = NULL
          /\ row.operation = args.operation
          /\ row.sobject = args.sobject
          /\ row.data = args.data
          /\ row.priority = IF args.priority = Omitted THEN NORMAL
                            ELSE CHOOSE p \in args.priority : TRUE
          /\ \A i \in DOMAIN store : store'[i] = store[i]
          /\ GetStats(store')[PENDING] = GetStats(store)[PENDING] + 1
          /\ GetStats(store')["total"] = GetStats(store)["total"] + 1]_vars

C14_Witness ==
  /\ last.op = "submit"
  /\ last.args.priority = Arg(URGENT)
  /\ store[last.id].priority = URGENT
  /\ last.id = 3
  /\ store[1].status = PROCESSING
  /\ store[2].priority = NORMAL

\* C15: submit_batch with n payloads returns n distinct ids in the order
\* of the payloads and leaves n new Pending tasks, one per payload; when it
\* is interrupted after k payloads exactly the tasks of the first k
\* payloads were added and none for the others.
C15_SubmitBatch ==
  [][(last'.op = "submit_batch" /\ last' # last) =>
       LET ids == last'.task_ids
           n == Len(last'.data_list)
           k == Len(ids)
       IN /\ last'.raised = NULL =>
               /\ last'.value = ReturnedIds(ids)
               /\ k = n
          /\ last'.raised # NULL => k < n
          /\ \A i, j \in 1..k : i # j => ids[i] # ids[j]
          /\ DOMAIN store' = last'.before \cup {ids[j] : j \in 1..k}
          /\ \A j \in 1..k :
               /\ ids[j] \notin last'.before
               /\ store'[ids[j]].status = PENDING
               /\ store'[ids[j]].data = last'.data_list[j]
               /\ \A i \in 1..k :
                    i < j => store'[ids[i]].rowid < store'[ids[j]].rowid]_vars

C15_Witness ==
  /\ last.op = "submit_batch"
  /\ last.raised = "interrupted"
  /\ last.data_list = <<"d2", "d1">>
  /\ Len(last.task_ids) = 1
  /\ last.before # {}
  /\ store[last.task_ids[1]].data = "d2"

\* C16: a get_next(agent_id) that returns a task moves exactly that task
\* from Pending to Processing, stores agent_id as its lease owner and the
\* current time as its started_at, and returns a Task with status
\* Processing that carries the task's operation, subject, payload and
\* retry_count.
C16_GetNextEffect ==
  [][GetNextReturnedTask =>
       LET id == last'.id
           task == last'.value.task
       IN /\ Claimed.status = PENDING
          /\ task.agent_id \in Agents
          /\ DOMAIN store' = DOMAIN store
          /\ store'[id] = [Claimed EXCEPT !.status = PROCESSING,
                                           !.agent_id = task.agent_id,
                                           !.started_at = clock]
          /\ \A i \in DOMAIN store : i # id => store'[i] = store[i]
          /\ task.id = id
          /\ task.status = PROCESSING
          /\ task.operation = Claimed.operation
          /\ task.sobject = Claimed.sobject
          /\ task.data = Claimed.data
          /\ task.retry_count = Claimed.retry_count]_vars

C16_Witness ==
  /\ last.op = "get_next"
  /\ last.value.kind = "Task"
  /\ last.value.task.retry_count = 2
  /\ last.value.task.agent_id = "a2"
  /\ store[last.id].agent_id = "a2"
  /\ \E i \in DOMAIN store : i # last.id /\ store[i].status = PENDING

\* C17: get_next returns None exactly when no task is Pending, whatever
\* Processing, Completed or Failed tasks are stored; it returns at once
\* (the call is never kept waiting) and then changes no stored task.
C17_GetNextNone ==
  /\ [](\A a \in Agents : ENABLED SeqGetNext(a))
  /\ [][(last'.op = "get_next" /\ CallStep) =>
          /\ (last'.value = None) <=> (WithStatus(store, PENDING) = {})
          /\ last'.value = None => store' = store
          /\ last'.raised = NULL]_vars

C17_Witness ==
  /\ last.op = "get_next"
  /\ last.value = None
  /\ WithStatus(store, PROCESSING) # {}
  /\ WithStatus(store, FAILED) # {}

\* C18: retry (the requeue) on a stored task: with retry_count below
\* max_retries it raises retry_count by exactly 1, sets the status to
\* Pending, clears started_at and the lease owner and returns True; with
\* retry_count at max_retries or above it returns False and changes nothing.
C18_Requeue ==
  [][(last'.op = "retry" /\ CallStep /\ last'.id \in DOMAIN store) =>
       LET id == last'.id
           row == store[id]
       IN IF row.retry_count < row.max_retries
          THEN /\ last'.value = ReturnedBool(TRUE)
               /\ store' = [store EXCEPT ![id] =
                              [row EXCEPT !.retry_count = row.retry_count + 1,
                                          !.status = PENDING,
                                          !.started_at = NoTime,
                                          !.agent_id = NULL]]
          ELSE /\ last'.value = ReturnedBool(FALSE)
               /\ store' = store]_vars

C18_Witness ==
  /\ last.op = "retry"
  /\ last.value = ReturnedBool(FALSE)
  /\ last.id \in DOMAIN store
  /\ store[last.id].status = PROCESSING
  /\ store[last.id].retry_count = 2
  /\ store[last.id].agent_id # NULL

\* C19: TaskQueue.fail(id, error) on a Processing task does not raise and
\* records the failure: afterwards the task is Pending with retry_count one
\* higher and no lease owner (retries remained), or Failed with completed_at
\* stamped and the given error stored (retries exhausted), never still
\* Processing; no other task changes.
C19_FailRecords ==
  [][(/\ last'.op = "fail"
      /\ CallStep
      /\ last'.id \in DOMAIN store
      /\ store[last'.id].status = PROCESSING) =>
        LET id == last'.id
            row == store[id]
        IN /\ last'.raised = NULL
           /\ store'[id].status # PROCESSING
           /\ IF row.retry_count < row.max_retries
              THEN /\ store'[id].status = PENDING
                   /\ store'[id].retry_count = row.retry_count + 1
                   /\ store'[id].agent_id = NULL
              ELSE /\ store'[id].status = FAILED
                   /\ store'[id].completed_at = clock
                   /\ store'[id].error = last'.args.error
                   /\ store'[id].retry_count = row.retry_count
           /\ DOMAIN store' = DOMAIN store
           /\ \A i \in DOMAIN store : i # id => store'[i] = store[i]]_vars

C19_Witness ==
  /\ last.op = "fail"
  /\ last.args.error = "e2"
  /\ store[last.id].status = FAILED
  /\ store[last.id].error = "e2"
  /\ store[last.id].retry_count = 3
  /\ \E i \in DOMAIN store : store[i].status = PENDING /\ store[i].retry_count = 1

\* C20: complete(id, result) on a Processing task sets its status to
\* Completed, stamps completed_at and stores the given result; the
\* completed count of stats() grows by 1 and the processing count drops
\* by 1; no other task changes.
C20_CompleteEffect ==
  [][(/\ last'.op = "complete"
      /\ CallStep
      /\ last'.id \in DOMAIN store
      /\ store[last'.id].status = PROCESSING) =>
        LET id == last'.id
            row == store[id]
        IN /\ last'.raised = NULL
           /\ store' = [store EXCEPT ![id] =
                          [row EXCEPT !.status = COMPLETED,
                                      !.completed_at = clock,
                                      !.result = last'.args.result]]
           /\ GetStats(store')[COMPLETED] = GetStats(store)[COMPLETED] + 1
           /\ GetStats(store')[PROCESSING] = GetStats(store)[PROCESSING] - 1
           /\ GetStats(store')[PENDING] = GetStats(store)[PENDING]
           /\ GetStats(store')[FAILED] = GetStats(store)[FAILED]
           /\ GetStats(store')["total"] = GetStats(store)["total"]]_vars

C20_Witness ==
  /\ last.op = "complete"
  /\ last.args.result = "r2"
  /\ store[last.id].status = COMPLETED
  /\ store[last.id].result = "r2"
  /\ store[last.id].completed_at = clock
  /\ \E i \in DOMAIN store : store[i].status = PROCESSING

\* C21: timestamp order: the clock never goes back, and in every reachable
\* state a task with started_at set has started_at >= created_at, and a
\* task with completed_at set has started_at set and
\* completed_at >= started_at.
C21_TimestampOrder ==
  \A id \in DOMAIN store :
    /\ store[id].started_at # NoTime =>
         store[id].started_at >= store[id].created_at
    /\ store[id].completed_at # NoTime =>
         /\ store[id].started_at # NoTime
         /\ store[id].completed_at >= store[id].started_at

\* C22: identity and description are immutable: no step of get_next,
\* complete, fail or retry (nor any other step) changes the stored id,
\* operation, sobject, data, priority, created_at or max_retries of a
\* task, and no task is ever removed.
C22_DescriptionImmutable ==
  [][\A id \in DOMAIN store :
       /\ id \in DOMAIN store'
       /\ store'[id].id = store[id].id
       /\ store'[id].operation = store[id].operation
       /\ store'[id].sobject = store[id].sobject
       /\ store'[id].data = store[id].data
       /\ store'[id].priority = store[id].priority
       /\ store'[id].created_at = store[id].created_at
       /\ store'[id].max_retries = store[id].max_retries]_vars

C22_Witness ==
  \E id \in DOMAIN store :
    /\ store[id].status = COMPLETED
    /\ store[id].retry_count = 1
    /\ store[id].error # NULL
    /\ store[id].agent_id = "a2"
    /\ store[id].id = id
    /\ store[id].data = "d1"

\* C23: row-level isolation: while a1 runs complete(id, ..) or
\* fail(id, ..) on a task it holds and a2 runs get_next, whatever the
\* interleaving of their statements, the table ends as it does when the
\* two calls run one after the other, and no task but the one completed or
\* failed and the one claimed has changed.
C23_RowIsolation ==
  RaceDone =>
    /\ store \in OneAfterTheOther(last.before, last.id, last.call,
                                  last.arg, "a2")
    /\ \A i \in DOMAIN store :
         (i # last.id /\ "a2" \notin holders[i]) => store[i] = last.before[i]

C23_Witness ==
  /\ RaceDone
  /\ last.call = "fail"
  /\ store[last.id].status = PENDING
  /\ store[last.id].retry_count = 1
  /\ \E i \in DOMAIN store :
       /\ i # last.id
       /\ store[i].status = PROCESSING
       /\ store[i].agent_id = "a2"
       /\ store[i].started_at < clock

\* C24: no automatic re-lease: a Processing task keeps its status and its
\* lease owner in every step that is not a step of complete or fail on its
\* id: no push, no get_next of any caller and no call on another id
\* changes them.
C24_NoReLease ==
  [][\A id \in DOMAIN store :
       store[id].status = PROCESSING =>
         \/ /\ store'[id].status = PROCESSING
            /\ store'[id].agent_id = store[id].agent_id
         \/ /\ store'[id].status = COMPLETED
            /\ pc' = pc
         \/ /\ store'[id].status \in {PENDING, FAILED}
            /\ \E a \in Agents :
                 /\ pc[a] \in {"retry_update", "fail_update"}
                 /\ loc[a].id = id
                 /\ pc'[a] = "idle"]_vars

\* C25: durability: when push, get_next, complete, fail or retry returns,
\* its change is committed to the table; a process death never changes
\* the table: after the commit the change stays, before the commit the
\* table is as it was before the call; only a commit changes the table.
C25_Durability ==
  [][/\ (last' # last /\ last'.op \in {"push", "get_next", "complete",
                                        "fail", "retry"}) =>
          /\ store' = store
          /\ last'.raised = NULL => store' = last'.pending
          /\ last'.raised = "died after commit" => store' = last'.pending
          /\ last'.raised = "died before commit" => store' = last'.before
     /\ store' # store =>
          \E a \in Agents : pc[a] = "executed" /\ pc'[a] = "committed"]_vars

C25_Witness ==
  /\ last.op = "complete"
  /\ last.raised = "died before commit"
  /\ last.pending # last.before
  /\ store = last.before
  /\ store[last.id].status = PROCESSING
  /\ store[last.id].retry_count = 1

\* C26: the retry decision ignores the error: two runs of the same calls
\* that differ only in the error strings passed to fail have the same
\* tasks with the same status, retry_count and lease owner after every
\* step; the tables differ in the error column only.
C26_ErrorIgnored ==
  /\ DOMAIN twin = DOMAIN store
  /\ \A id \in DOMAIN store :
       /\ twin[id].status = store[id].status
       /\ twin[id].retry_count = store[id].retry_count
       /\ twin[id].agent_id = store[id].agent_id
       /\ [twin[id] EXCEPT !.error = NULL] = [store[id] EXCEPT !.error = NULL]

C26_Witness ==
  \E id \in DOMAIN store :
    /\ store[id].status = FAILED
    /\ store[id].error = "e1"
    /\ twin[id].error = "e2"
    /\ store[id].retry_count = 1
    /\ \E i \in DOMAIN store : store[i].status = PENDING /\ store[i].retry_count = 1

\* C27: "retrying" is never stored: in every reachable state the status of
\* every task is pending, processing, completed or failed, and stats() has
\* exactly the keys pending, processing, completed, failed and total.
C27_NoRetryingStatus ==
  /\ \A id \in DOMAIN store :
       store[id].status \in {PENDING, PROCESSING, COMPLETED, FAILED}
  /\ DOMAIN GetStats(store) = {PENDING, PROCESSING, COMPLETED, FAILED, "total"}
  /\ last.op = "stats" =>
       DOMAIN last.value.stats
         = {PENDING, PROCESSING, COMPLETED, FAILED, "total"}

C27_Witness ==
  /\ last.op = "stats"
  /\ RETRYING \notin DOMAIN last.value.stats
  /\ last.value.stats[PENDING] = 1
  /\ \E id \in DOMAIN store :
       store[id].status = PENDING /\ store[id].retry_count = 1

\* C28: in every reachable state the stored result is non-null only on
\* completed tasks and the stored error is non-null only on failed tasks
\* (so a requeued task carries no error and no task carries both).
C28_ResultErrorByStatus ==
  \A id \in DOMAIN store :
    /\ store[id].result # NULL => store[id].status = COMPLETED
    /\ store[id].error # NULL => store[id].status = FAILED

\* C29: the sleep after an empty poll is min(30, 2^min(idle_count div 10, 5)):
\* 1 for the first polls, then 2, 4, 8, 16 and 30 from the fiftieth on; over
\* consecutive empty polls it never decreases and never exceeds 30; a claim
\* resets idle_count to 0, so the next empty poll sleeps 1 again.
C29_Backoff ==
  [][/\ daemon'.idle_count = daemon.idle_count + 1 =>
          /\ daemon'.sleep_time =
               (LET k == daemon'.idle_count \div 10
                IN CASE k = 0 -> 1 [] k = 1 -> 2 [] k = 2 -> 4 [] k = 3 -> 8
                     [] k = 4 -> 16 [] OTHER -> 30)
          /\ daemon'.sleep_time <= 30
          /\ daemon.idle_count = 0 => daemon'.sleep_time = 1
          /\ daemon.idle_count > 0 => daemon'.sleep_time >= daemon.sleep_time
     /\ (daemon.pos = "body" /\ daemon'.pos = "process") =>
          daemon'.idle_count = 0]_vars

C29_Witness ==
  /\ daemon.pos = "process"
  /\ daemon.sleep_time = 30
  /\ daemon.idle_count = 0

C31_EventualTermination ==
  \A id \in 1..MaxWorkerTasks :
    (id \in DOMAIN store)
      ~> [](id \in DOMAIN store /\ store[id].status \in {COMPLETED, FAILED})

C31_Witness ==
  /\ \E id \in DOMAIN store :
       store[id].status = FAILED /\ store[id].retry_count = 1
  /\ \A a \in Agents : pc[a] = "idle"

\* C32: over any execution with concurrent workers a task of retry budget
\* max_retries is returned by get_next at most max_retries + 1 times.
C32_BoundedExecutions ==
  \A id \in DOMAIN store : Returns(id) <= store[id].max_retries + 1

\* C33: the Task returned by get_next(agent_id) agrees with the stored row
\* when the call returns: the stored status is processing, the stored
\* lease owner is agent_id, and the stored started_at and retry_count are
\* those of the returned Task.
C33_ReturnedAgreesWithStored ==
  [][GetNextReturnedTask =>
       LET task == last'.value.task
       IN /\ store'[task.id].status = PROCESSING
          /\ store'[task.id].agent_id = task.agent_id
          /\ store'[task.id].started_at = task.started_at
          /\ store'[task.id].retry_count = task.retry_count]_vars

\* C34: agent shutdown loses no claimed task: when the agent has stopped,
\* every task its get_next returned was handed to the executor and was
\* reported by one complete or fail, and none is left processing under
\* the agent's id.
C34_ShutdownLosesNoTask ==
  agent.pos = "stopped" =>
    /\ agent.handed = agent.claimed
    /\ agent.reported = agent.claimed
    /\ \A id \in DOMAIN store :
         ~(store[id].status = PROCESSING /\ store[id].agent_id = AgentId)

C36_RoundTrip ==
  last.op = "from_dict" =>
    /\ last.value = last.self
    /\ last.value.status \in TaskStatusMembers
    /\ last.value.priority \in TaskPriorityMembers
    /\ last.d.status \in TaskStatus
    /\ last.d.priority \in TaskPriority

C36_Witness ==
  /\ last.op = "from_dict"
  /\ last.d.status = RETRYING
  /\ last.d.priority = URGENT
  /\ last.value.status = [enum |-> "TaskStatus", name |-> "RETRYING"]
  /\ last.value.priority = [enum |-> "TaskPriority", name |-> "URGENT"]
  /\ last.value.agent_id = "a1"

\* C37: _execute_job sends create, upload, close, the polls and the two
\* result requests in that order; once the job is created, a failure of a
\* later step sends one abort and raises the error of that step again,
\* also when the abort itself fails; no abort is sent when every step
\* succeeds, nor when the creation fails.
C37_BulkProtocol ==
  LET rank(r) == CASE r = "create" -> 1 [] r = "upload" -> 2
                   [] r = "close" -> 3 [] r = "poll" -> 4
                   [] r = "successfulResults" -> 5
                   [] r = "failedResults" -> 6 [] r = "abort" -> 7
      sent == bulk.requests
      aborts == {i \in DOMAIN sent : sent[i] = "abort"}
  IN /\ \A i, j \in DOMAIN sent :
          i < j => /\ rank(sent[i]) <= rank(sent[j])
                   /\ rank(sent[i]) = rank(sent[j]) => sent[i] = "poll"
     /\ sent # <<>> => sent[1] = "create"
     /\ \A i \in DOMAIN sent :
          (i > 1 /\ sent[i] # "abort") => rank(sent[i]) - rank(sent[i - 1]) <= 1
     /\ bulk.pos = "done" =>
          /\ bulk.failed_step # NULL =>
               /\ aborts = {Len(sent)}
               /\ bulk.raised = bulk.failed_step \o " failed"
               /\ bulk.returned = NULL
          /\ bulk.failed_step = NULL => aborts = {}
          /\ bulk.raised = NULL =>
               /\ bulk.returned \in FinalJobStates
               /\ {sent[i] : i \in DOMAIN sent}
                    = {"create", "upload", "close", "poll",
                       "successfulResults", "failedResults"}

C37_Witness ==
  /\ bulk.pos = "done"
  /\ bulk.failed_step = "poll"
  /\ bulk.abort_raised
  /\ bulk.raised = "poll failed"
  /\ bulk.requests = <<"create", "upload", "close", "poll", "poll", "abort">>

====
